---- MODULE Spec2Model ----
(***************************************************************************)
(* A model of src/src/jit.rs: the toy-language JIT front end.  JIT::compile *)
(* parses a function, JIT::translate lowers its AST to IR through a        *)
(* FunctionBuilder, and the module backend declares, defines and finalizes *)
(* it.  The recursion of FunctionTranslator::translate_expr is modelled by *)
(* an explicit stack of activation frames; every builder call appends to   *)
(* the function under construction and to a log of builder calls.          *)
(***************************************************************************)
EXTENDS Integers, Sequences, FiniteSets, TLC

(***************************************************************************)
(* Bounds of the model.                                                    *)
(***************************************************************************)
\* literals of the generated arithmetic programs range over -MaxLit..MaxLit
MaxLit == 2
\* arguments a compiled function is invoked with range over -MaxArg..MaxArg
MaxArg == 2
\* compile calls made on a JIT that serves a sequence of calls
MaxCompiles == 2

\* largest value of the language's integer type (literal.parse::<i32>())
MaxI32 == 2147483647
MinI32 == (-MaxI32) - 1

\* instructions one invocation may execute before it is given up as diverging
Fuel == 12 * (MaxArg + 1) + 4

(***************************************************************************)
(* The AST (enum Expr).  A node is a record tagged by k.                   *)
(***************************************************************************)
Literal(s) == [k |-> "Literal", s |-> s]
Identifier(n) == [k |-> "Identifier", n |-> n]
Assign(n, e) == [k |-> "Assign", n |-> n, e |-> e]
Binary(op, l, r) == [k |-> op, l |-> l, r |-> r]
IfElse(c, t, e) == [k |-> "IfElse", c |-> c, t |-> t, e |-> e]
WhileLoop(c, b) == [k |-> "WhileLoop", c |-> c, b |-> b]
Call(n, a) == [k |-> "Call", n |-> n, a |-> a]

ArithOps == {"Add", "Sub", "Mul", "Div"}
CmpOps == {"Eq", "Ne", "Lt", "Le", "Gt", "Ge"}

(***************************************************************************)
(* 32-bit two's complement arithmetic, computed without leaving the 32-bit *)
(* range.                                                                  *)
(***************************************************************************)
\* iadd: wrapping addition
Add32(a, b) ==
  IF b > 0 /\ a > MaxI32 - b THEN (a - MaxI32 - 1) + (b - MaxI32 - 1)
  ELSE IF b < 0 /\ a < MinI32 - b THEN (a + MaxI32 + 1) + (b + MaxI32 + 1)
  ELSE a + b

\* isub: wrapping subtraction
Sub32(a, b) == IF b = MinI32 THEN Add32(a, MinI32) ELSE Add32(a, -b)

\* (x * y) mod 2^16 for x, y in 0..65535, without leaving 32 bits
MulLow16(x, y) == (x * (y % 256) + ((x * (y \div 256)) % 256) * 256) % 65536

\* x * 2^8 wrapped to 32 bits, for 0 <= x < 2^24
Shl8(x) == IF x >= 8388608 THEN (x - 16777216) * 256 ELSE x * 256

\* x * 2^16 wrapped to 32 bits, for 0 <= x < 2^16
Shl16(x) == IF x >= 32768 THEN (x - 65536) * 65536 ELSE x * 65536

\* imul: wrapping multiplication, from the 16-bit halves of the operands
Mul32(a, b) ==
  LET al == a % 65536
      ah == (a \div 65536) % 65536
      bl == b % 65536
      bh == (b \div 65536) % 65536
      low == Add32(al * (bl % 256), Shl8(al * (bl \div 256)))
      cross == (MulLow16(ah, bl) + MulLow16(al, bh)) % 65536
  IN  Add32(low, Shl16(cross))

\* floor((h + 2^31) / b) for 0 <= h <= MaxI32 and b >= 2
HighQuot(h, b) ==
  LET q1 == MaxI32 \div b
      r1 == MaxI32 % b
      qh == h \div b
      rh == h % b
  IN  q1 + qh + (IF rh >= b - r1 - 1 THEN 1 ELSE 0)

\* udiv: both operands are read as unsigned 32-bit numbers; b # 0
UDiv32(a, b) ==
  IF b < 0 THEN (IF a < 0 /\ a >= b THEN 1 ELSE 0)
  ELSE IF a >= 0 THEN a \div b
  ELSE IF b = 1 THEN a
  ELSE HighQuot(a + MaxI32 + 1, b)

\* signed division truncating toward zero (the usual meaning of / on i32); b # 0
SDiv32(a, b) ==
  IF a = MinI32 /\ b = -1 THEN MinI32
  ELSE LET q == (IF a < 0 THEN -a ELSE a) \div (IF b < 0 THEN -b ELSE b)
       IN  IF (a < 0) = (b < 0) THEN q ELSE -q

(***************************************************************************)
(* Literal text.  A text is a sequence of one-character strings.           *)
(***************************************************************************)
DigitChars == <<"0", "1", "2", "3", "4", "5", "6", "7", "8", "9">>

DigitVal(c) ==
  IF \E d \in 1..10 : DigitChars[d] = c
  THEN (CHOOSE d \in 1..10 : DigitChars[d] = c) - 1
  ELSE -1

\* The digits of text from position i on, accumulated on the negative side
\* so that MinI32 is representable; "bad" on a non-digit or on overflow.
RECURSIVE ParseDigits(_, _, _, _)
ParseDigits(text, i, acc, neg) ==
  IF i > Len(text) THEN [ok |-> TRUE, v |-> acc]
  ELSE LET d == DigitVal(text[i]) IN
       IF d < 0 THEN [ok |-> FALSE, v |-> 0]
       ELSE IF neg
            THEN (IF acc < (MinI32 + d) \div 10 + (IF (MinI32 + d) % 10 = 0 THEN 0 ELSE 1)
                  THEN [ok |-> FALSE, v |-> 0]
                  ELSE ParseDigits(text, i + 1, acc * 10 - d, neg))
            ELSE (IF acc > (MaxI32 - d) \div 10
                  THEN [ok |-> FALSE, v |-> 0]
                  ELSE ParseDigits(text, i + 1, acc * 10 + d, neg))

\* literal.parse::<i32>(): an optional sign, then at least one digit, in range
ParseI32(text) ==
  IF Len(text) = 0 THEN [ok |-> FALSE, v |-> 0]
  ELSE IF text[1] \in {"-", "+"}
       THEN (IF Len(text) = 1 THEN [ok |-> FALSE, v |-> 0]
             ELSE ParseDigits(text, 2, 0, text[1] = "-"))
       ELSE ParseDigits(text, 1, 0, FALSE)

\* the decimal text of n, as the parser collaborator hands it over
RECURSIVE DigitsOf(_)
DigitsOf(n) ==
  IF n < 10 THEN <<DigitChars[n + 1]>>
  ELSE DigitsOf(n \div 10) \o <<DigitChars[(n % 10) + 1]>>

TextOf(n) == IF n < 0 THEN <<"-">> \o DigitsOf(-n) ELSE DigitsOf(n)


(***************************************************************************)
(* The function under construction and its FunctionBuilder.                *)
(*   blocks : the Ebbs of ctx.func, Ebb b at position b + 1; each has its  *)
(*            entry parameters (Values) and its instructions in order      *)
(*   nvals  : Values created so far in ctx.func (the next Value)           *)
(*   cur    : the block the builder emits into (-1: none)                  *)
(*   sealed : the blocks sealed so far                                     *)
(*   dvars  : the Variables declared to the builder                        *)
(*   log    : every builder call so far, in order                          *)
(* use_var and def_var are kept in the instruction stream as reads and     *)
(* writes of the Variable, which is what the SSA construction of the       *)
(* frontend resolves them to.                                              *)
(***************************************************************************)
NoBlock == -1
NoValue == -1

Inst(op, a, t, i, res, f) ==
  [op |-> op, a |-> a, t |-> t, i |-> i, res |-> res, f |-> f]

Event(ev, b, op, t) == [ev |-> ev, b |-> b, op |-> op, t |-> t]

\* cretonne::Context::new() / Context::clear(): an empty function
EmptyFunc ==
  [blocks |-> <<>>, nvals |-> 0, cur |-> NoBlock, sealed |-> {}, dvars |-> {},
   log |-> <<>>]

\* FunctionBuilder::new(&mut self.ctx.func, &mut self.builder_context)
NewBuilder(func) ==
  [blocks |-> func.blocks, nvals |-> func.nvals, cur |-> NoBlock,
   sealed |-> {}, dvars |-> {}, log |-> <<>>]

NumBlocks(B) == Len(B.blocks)

\* builder.create_ebb(): the new Ebb is NumBlocks(B)
CreateEbb(B) ==
  [B EXCEPT !.blocks = Append(@, [params |-> <<>>, insts |-> <<>>]),
            !.log = Append(@, Event("create", NumBlocks(B), "", NoBlock))]

\* builder.append_ebb_param(b, types::I32): the new parameter is Value B.nvals
AppendEbbParam(B, b) ==
  [B EXCEPT !.blocks[b + 1].params = Append(@, B.nvals),
            !.nvals = @ + 1]

RECURSIVE AppendEbbParams(_, _, _)
AppendEbbParams(B, b, n) ==
  IF n = 0 THEN B
  ELSE LET B1 == AppendEbbParams(B, b, n - 1) IN AppendEbbParam(B1, b)

\* builder.ebb_params(b)[i], i counted from 0
EbbParam(B, b, i) == B.blocks[b + 1].params[i + 1]

\* builder.switch_to_block(b)
SwitchToBlock(B, b) ==
  [B EXCEPT !.cur = b, !.log = Append(@, Event("switch", b, "", NoBlock))]

\* builder.seal_block(b)
SealBlock(B, b) ==
  [B EXCEPT !.sealed = @ \cup {b}, !.log = Append(@, Event("seal", b, "", NoBlock))]

\* builder.ins().<op>(...): appended to the current block
Ins(B, inst) ==
  [B EXCEPT !.blocks[B.cur + 1].insts = Append(@, inst),
            !.nvals = IF inst.res = NoValue THEN @ ELSE @ + 1,
            !.log = Append(@, Event("ins", B.cur, inst.op, inst.t))]

\* an instruction with one result, the next Value
Ins1(B, op, a, i) == Ins(B, Inst(op, a, NoBlock, i, B.nvals, ""))

\* the Value of the instruction Ins1 has just appended
LastValue(B) == B.nvals - 1

Iconst(B, imm) == Ins1(B, "iconst", <<>>, imm)
Brz(B, c, target) == Ins(B, Inst("brz", <<c>>, target, 0, NoValue, ""))
Jump(B, target, args) == Ins(B, Inst("jump", args, target, 0, NoValue, ""))
Return(B, v) == Ins(B, Inst("return", <<v>>, NoBlock, 0, NoValue, ""))
\* CallInst with the operands in reverse order
CallInstReversed(B, callee, args) ==
  Ins(B, Inst("call", [n \in 1..Len(args) |-> args[Len(args) + 1 - n]], NoBlock, 0,
              B.nvals, callee))
CallInst(B, callee, args) == Ins(B, Inst("call", args, NoBlock, 0, B.nvals, callee))

\* builder.declare_var(var, types::I32)
DeclareVar(B, var) == [B EXCEPT !.dvars = @ \cup {var}]

\* builder.def_var(var, val)
DefVar(B, var, val) ==
  [B EXCEPT !.blocks[B.cur + 1].insts =
                Append(@, Inst("def_var", <<val>>, NoBlock, var, NoValue, "")),
            !.log = Append(@, Event("def", B.cur, "def_var", var))]

\* builder.use_var(var): the Value is LastValue of the result
UseVar(B, var) == Ins1(B, "use_var", <<>>, var)

(***************************************************************************)
(* The variable table builder.  A table state is the HashMap (a function   *)
(* from names to Variable indices), the next index, the builder, the       *)
(* Variable the last declare_variable returned, and whether a debug        *)
(* assertion of the frontend has fired.                                    *)
(***************************************************************************)
\* HashMap::insert for a name that is not yet a key
MapInsert(m, name, var) == [n \in DOMAIN m \cup {name} |-> IF n = name THEN var ELSE m[n]]

\* DeclareVariable with the index advanced for a known name too
DeclareVariableBump(st, name) ==
  IF name \notin DOMAIN st.variables
  THEN [st EXCEPT !.variables = MapInsert(st.variables, name, st.index),
                  !.B = DeclareVar(st.B, st.index),
                  !.index = st.index + 1,
                  !.var = st.index]
  ELSE [st EXCEPT !.var = st.index, !.index = st.index + 1]

\* declare_variable(builder, variables, index, name)
DeclareVariable(st, name) ==
  IF name \notin DOMAIN st.variables
  THEN [st EXCEPT !.variables = MapInsert(st.variables, name, st.index),
                  !.B = DeclareVar(st.B, st.index),
                  !.index = st.index + 1,
                  !.var = st.index]
  ELSE [st EXCEPT !.var = st.index]

\* def_var as declare_variables calls it: the frontend checks the declared
\* type of the Variable by a debug assertion only, so a definition of a
\* Variable that was never declared stops a debug build and is recorded
\* by a release build.
TableDefVar(st, val, build) ==
  IF st.var \notin st.B.dvars /\ build = "debug"
  THEN [st EXCEPT !.panic = TRUE]
  ELSE [st EXCEPT !.B = DefVar(st.B, st.var, val)]

\* the loop over the parameter names (jit.rs 398-404), names i+1.. of params
RECURSIVE DeclareParams(_, _, _, _, _)
DeclareParams(st, params, i, entry, build) ==
  IF i >= Len(params) \/ st.panic THEN st
  ELSE LET val == EbbParam(st.B, entry, i)
           st1 == DeclareVariable(st, params[i + 1])
           st2 == TableDefVar(st1, val, build)
       IN  DeclareParams(st2, params, i + 1, entry, build)

RECURSIVE DeclareVariablesInStmt(_, _)
RECURSIVE DeclareVariablesInStmts(_, _, _)

\* for stmt in body { declare_variables_in_stmt(.., &stmt) }
DeclareVariablesInStmts(st, body, i) ==
  IF i > Len(body) THEN st
  ELSE LET st1 == DeclareVariablesInStmt(st, body[i])
       IN  DeclareVariablesInStmts(st1, body, i + 1)

\* declare_variables_in_stmt(builder, variables, index, expr)
DeclareVariablesInStmt(st, expr) ==
  CASE expr.k = "Assign" -> DeclareVariable(st, expr.n)
    [] expr.k = "IfElse" ->
         LET st1 == DeclareVariablesInStmts(st, expr.t, 1)
         IN  DeclareVariablesInStmts(st1, expr.e, 1)
    [] expr.k = "WhileLoop" -> DeclareVariablesInStmts(st, expr.b, 1)
    [] OTHER -> st

\* declare_variables(builder, params, the_return, stmts, entry_ebb)
DeclareVariables(B, params, the_return, stmts, entry, build) ==
  LET st0 == [B |-> B, variables |-> <<>>, index |-> 0, var |-> 0, panic |-> FALSE]
      st1 == DeclareParams(st0, params, 0, entry, build)
      st2 == [st1 EXCEPT !.B = Iconst(st1.B, 0)]
      zero == LastValue(st2.B)
      st3 == DeclareVariable(st2, the_return)
      st4 == TableDefVar(st3, zero, build)
  IN  IF st1.panic THEN st1
      ELSE IF st4.panic THEN st4
      ELSE DeclareVariablesInStmts(st4, stmts, 1)


(***************************************************************************)
(* The pieces of FunctionTranslator::translate_expr between its recursive  *)
(* calls, as functions of the builder.                                     *)
(***************************************************************************)
\* the opcode each arithmetic node is lowered to (jit.rs 193-215)
ArithOpcode(k) ==
  CASE k = "Add" -> "iadd"
    [] k = "Sub" -> "isub"
    [] k = "Mul" -> "imul"
    [] k = "Div" -> "udiv"

\* CondCode with Le lowered to the strict comparison
CondCodeStrict(k) ==
  CASE k = "Eq" -> "Equal"
    [] k = "Ne" -> "NotEqual"
    [] k = "Lt" -> "SignedLessThan"
    [] k = "Le" -> "SignedLessThan"
    [] k = "Gt" -> "SignedGreaterThan"
    [] k = "Ge" -> "SignedGreaterThanOrEqual"

\* the condition code each comparison node is lowered to (jit.rs 217-265)
CondCode(k) ==
  CASE k = "Eq" -> "Equal"
    [] k = "Ne" -> "NotEqual"
    [] k = "Lt" -> "SignedLessThan"
    [] k = "Le" -> "SignedLessThanOrEqual"
    [] k = "Gt" -> "SignedGreaterThan"
    [] k = "Ge" -> "SignedGreaterThanOrEqual"

\* EmitArith with the operands in the wrong order
EmitArithSwapped(B, k, lhs, rhs) == Ins1(B, ArithOpcode(k), <<rhs, lhs>>, 0)

\* self.builder.ins().iadd(lhs, rhs) and its siblings
EmitArith(B, k, lhs, rhs) == Ins1(B, ArithOpcode(k), <<lhs, rhs>>, 0)

\* EmitCompare with the comparison emitted into a block of its own
EmitCompareInOwnBlock(B, k, lhs, rhs) ==
  LET own == NumBlocks(B)
      B1 == CreateEbb(B)
      B2 == Jump(B1, own, <<>>)
      B3 == SwitchToBlock(B2, own)
      B4 == SealBlock(B3, own)
      B5 == Ins(B4, Inst("icmp", <<lhs, rhs>>, NoBlock, 0, B4.nvals, CondCode(k)))
  IN  Ins1(B5, "bint", <<LastValue(B5)>>, 0)

\* let c = icmp(cc, lhs, rhs); bint(types::I32, c)
EmitCompare(B, k, lhs, rhs) ==
  LET B1 == Ins(B, Inst("icmp", <<lhs, rhs>>, NoBlock, 0, B.nvals, CondCode(k)))
  IN  Ins1(B1, "bint", <<LastValue(B1)>>, 0)

\* IfElse, after the condition: jit.rs 288-301.  The else block is
\* NumBlocks(B), the merge block the one after it, and then_return the
\* LastValue of the result.
IfElseBranch(B, condition_value) ==
  LET else_block == NumBlocks(B)
      merge_block == NumBlocks(B) + 1
      B1 == CreateEbb(B)
      B2 == CreateEbb(B1)
      B3 == AppendEbbParam(B2, merge_block)
      B4 == Brz(B3, condition_value, else_block)
  IN  Iconst(B4, 0)

\* IfElseToElse without the switch to the else block
IfElseToElseNoSwitch(B, else_block, merge_block, then_return) ==
  LET B1 == Jump(B, merge_block, <<then_return>>)
      B2 == SealBlock(B1, else_block)
  IN  Iconst(B2, 0)

\* IfElse, after the then body: jit.rs 307-311; else_return is the LastValue
IfElseToElse(B, else_block, merge_block, then_return) ==
  LET B1 == Jump(B, merge_block, <<then_return>>)
      B2 == SwitchToBlock(B1, else_block)
      B3 == SealBlock(B2, else_block)
  IN  Iconst(B3, 0)

\* IfElseMerge with the Value of the then body passed by the second jump too
IfElseMergeThenValue(B, merge_block, else_return) ==
  LET jumps == {ins \in UNION {{B.blocks[b].insts[n] : n \in 1..Len(B.blocks[b].insts)} :
                                  b \in 1..Len(B.blocks)} :
                  ins.op = "jump" /\ ins.t = merge_block}
      then_return == (CHOOSE ins \in jumps : TRUE).a[1]
      B1 == Jump(B, merge_block, <<then_return>>)
      B2 == SwitchToBlock(B1, merge_block)
  IN  SealBlock(B2, merge_block)

\* IfElse, after the else body: jit.rs 317-323
IfElseMerge(B, merge_block, else_return) ==
  LET B1 == Jump(B, merge_block, <<else_return>>)
      B2 == SwitchToBlock(B1, merge_block)
  IN  SealBlock(B2, merge_block)

\* WhileLoopEnter with the header sealed as soon as it is entered
WhileLoopEnterSealed(B) ==
  LET header_block == NumBlocks(B)
      B1 == CreateEbb(B)
      B2 == CreateEbb(B1)
      B3 == Jump(B2, header_block, <<>>)
      B4 == SwitchToBlock(B3, header_block)
  IN  SealBlock(B4, header_block)

\* WhileLoop, before the condition: jit.rs 333-336.  The header block is
\* NumBlocks(B) and the exit block the one after it.
WhileLoopEnter(B) ==
  LET header_block == NumBlocks(B)
      B1 == CreateEbb(B)
      B2 == CreateEbb(B1)
      B3 == Jump(B2, header_block, <<>>)
  IN  SwitchToBlock(B3, header_block)

\* WhileLoop, after the condition: jit.rs 339
WhileLoopTest(B, condition_value, exit_block) == Brz(B, condition_value, exit_block)

\* WhileLoopExit with the jump at the end of the body going to the exit block
WhileLoopExitNoBackedge(B, header_block, exit_block) ==
  LET B1 == Jump(B, exit_block, <<>>)
      B2 == SwitchToBlock(B1, exit_block)
      B3 == SealBlock(B2, header_block)
      B4 == SealBlock(B3, exit_block)
  IN  Iconst(B4, 0)

\* WhileLoopExit with the exit block left unsealed
WhileLoopExitUnsealed(B, header_block, exit_block) ==
  LET B1 == Jump(B, header_block, <<>>)
      B2 == SwitchToBlock(B1, exit_block)
      B3 == SealBlock(B2, header_block)
  IN  Iconst(B3, 0)

\* WhileLoop, after the body: jit.rs 344-354; the Value is the LastValue
WhileLoopExit(B, header_block, exit_block) ==
  LET B1 == Jump(B, header_block, <<>>)
      B2 == SwitchToBlock(B1, exit_block)
      B3 == SealBlock(B2, header_block)
      B4 == SealBlock(B3, exit_block)
  IN  Iconst(B4, 0)

\* translate(), before the statements: jit.rs 126-144; the entry block is
\* NumBlocks(func)
TranslateEntry(func, nparams) ==
  LET entry_ebb == NumBlocks(func)
      B0 == NewBuilder(func)
      B1 == CreateEbb(B0)
      B2 == AppendEbbParams(B1, entry_ebb, nparams)
      B3 == SwitchToBlock(B2, entry_ebb)
  IN  SealBlock(B3, entry_ebb)

\* translate(), after the statements: jit.rs 163-167
TranslateReturnValue(B, return_variable) ==
  LET B1 == UseVar(B, return_variable)
  IN  Return(B1, LastValue(B1))

(***************************************************************************)
(* The backend module (Module<SimpleJITBackend>), by its contract:         *)
(* declare_function is idempotent per name and signature and rejects a     *)
(* name already declared with another signature.  A signature is the pair  *)
(* <<number of I32 parameters, number of I32 returns>>.                    *)
(***************************************************************************)
EmptyModule == [decls |-> <<>>, defined |-> {}]

DeclareFunction(m, name, signature) ==
  IF name \in DOMAIN m.decls
  THEN [ok |-> m.decls[name] = signature, m |-> m]
  ELSE [ok |-> TRUE, m |-> [m EXCEPT !.decls = MapInsert(m.decls, name, signature)]]

\* CallSignature with one more parameter when the first argument is a literal
CallSignatureByArgument(args) ==
  <<Len(args) + (IF args # <<>> /\ args[1].k = "Literal" THEN 1 ELSE 0), 1>>

\* the signature translate_call builds: jit.rs 360-368
CallSignature(args) == <<Len(args), 1>>

(***************************************************************************)
(* Source texts.  The parser collaborator turns a well-formed text into    *)
(* (name, params, the_return, stmts) and rejects any other text.           *)
(***************************************************************************)
Fn(name, params, the_return, stmts) ==
  [name |-> name, params |-> params, ret |-> the_return, stmts |-> stmts]

Text(unit) == [wellformed |-> TRUE, unit |-> unit]
BadText == [wellformed |-> FALSE, unit |-> Fn("f", <<>>, "r", <<>>)]

\* parser::function(&input)
ParseFunction(input) == [ok |-> input.wellformed, unit |-> input.unit]


(***************************************************************************)
(* Execution of a defined function: the meaning of the IR the translator   *)
(* emits.  A machine state is the block and the position in it, the Values *)
(* computed so far, the current definition of each Variable, the fuel      *)
(* left and the instructions executed so far as <<block, position>>.  A    *)
(* call of an external function is not executed: the machine stops there.  *)
(***************************************************************************)
\* icmp: the comparison of a condition code, on signed 32-bit integers
ICmp(cc, a, b) ==
  CASE cc = "Equal" -> a = b
    [] cc = "NotEqual" -> a # b
    [] cc = "SignedLessThan" -> a < b
    [] cc = "SignedLessThanOrEqual" -> a <= b
    [] cc = "SignedGreaterThan" -> a > b
    [] cc = "SignedGreaterThanOrEqual" -> a >= b

\* bint: a boolean widened to an integer
Bint(c) == IF c THEN 1 ELSE 0

\* iadd, isub, imul, udiv on two operands
ArithResult(op, a, b) ==
  CASE op = "iadd" -> Add32(a, b)
    [] op = "isub" -> Sub32(a, b)
    [] op = "imul" -> Mul32(a, b)
    [] op = "udiv" -> UDiv32(a, b)

\* the values args bound to the parameters params, one by one
RECURSIVE BindParams(_, _, _, _)
BindParams(env, params, args, i) ==
  IF i > Len(params) THEN env
  ELSE LET env1 == MapInsert(env, params[i], args[i])
       IN  BindParams(env1, params, args, i + 1)

Halt(s, status, v) == [s EXCEPT !.status = status, !.ret = v]

\* the machine before the first instruction of the first block of F
Start(F, args) ==
  [status |-> "running", ret |-> 0, args |-> args, b |-> 0, i |-> 1,
   fuel |-> Fuel, trace |-> <<>>, vars |-> <<>>,
   env |-> BindParams(<<>>, F.blocks[1].params, args, 1)]

\* one instruction of F executed from the running machine s
Step(F, s) ==
  IF s.fuel = 0 THEN Halt(s, "fuel", 0)
  ELSE IF s.i > Len(F.blocks[s.b + 1].insts) THEN Halt(s, "unterminated", 0)
  ELSE
    LET ins == F.blocks[s.b + 1].insts[s.i]
        t == [s EXCEPT !.fuel = @ - 1, !.trace = Append(@, <<s.b, s.i>>), !.i = @ + 1]
        arg(n) == t.env[ins.a[n]]
        set(v) == [t EXCEPT !.env = MapInsert(t.env, ins.res, v)]
    IN
    IF \E n \in 1..Len(ins.a) : ins.a[n] \notin DOMAIN t.env THEN Halt(t, "undefined", 0)
    ELSE
    CASE ins.op = "iconst" -> set(ins.i)
      [] ins.op \in {"iadd", "isub", "imul"} -> set(ArithResult(ins.op, arg(1), arg(2)))
      [] ins.op = "udiv" ->
           IF arg(2) = 0 THEN Halt(t, "trap", 0)
           ELSE set(ArithResult(ins.op, arg(1), arg(2)))
      [] ins.op = "icmp" -> set(ICmp(ins.f, arg(1), arg(2)))
      [] ins.op = "bint" -> set(Bint(arg(1)))
      [] ins.op = "use_var" ->
           IF ins.i \notin DOMAIN t.vars THEN Halt(t, "undefined", 0)
           ELSE set(t.vars[ins.i])
      [] ins.op = "def_var" -> [t EXCEPT !.vars = MapInsert(t.vars, ins.i, arg(1))]
      [] ins.op = "brz" ->
           IF arg(1) = 0 THEN [t EXCEPT !.b = ins.t, !.i = 1] ELSE t
      [] ins.op = "jump" ->
           LET vals == [n \in 1..Len(ins.a) |-> arg(n)]
           IN  [t EXCEPT !.b = ins.t, !.i = 1,
                         !.env = BindParams(t.env, F.blocks[ins.t + 1].params, vals, 1)]
      [] ins.op = "return" -> Halt(t, "returned", arg(1))
      [] ins.op = "call" -> Halt(t, "extern", 0)

(***************************************************************************)
(* The source texts the model compiles.                                    *)
(***************************************************************************)
Num(n) == Literal(TextOf(n))
A == Identifier("a")
R1 == Assign("r", Num(1))
DecA == Assign("a", Binary("Sub", A, Num(1)))
IncR == Assign("r", Binary("Add", Identifier("r"), Num(1)))

\* fn f(a) -> r { r = a }
RoundTrip == Fn("f", <<"a">>, "r", <<Assign("r", A)>>)
\* fn f(a) -> r { if a { r = 1 } else { r = 2 } }
CondExample ==
  Fn("f", <<"a">>, "r", <<IfElse(A, <<R1>>, <<Assign("r", Num(2))>>)>>)
\* fn f(a) -> r { r = 0; while a { r = r + 1; a = a - 1 } }
LoopExample ==
  Fn("f", <<"a">>, "r", <<Assign("r", Num(0)), WhileLoop(A, <<IncR, DecA>>)>>)

LitVals == (0 - MaxLit)..MaxLit
ArgVals == (0 - MaxArg)..MaxArg
EdgeVals == {0 - MaxLit, 1, MaxLit}

\* r = x op y, r = (x op y) op z and r = x op (y op z) over literals
ArithExprs ==
  {Binary(op, Num(x), Num(y)) : op \in ArithOps, x \in LitVals, y \in LitVals}
  \cup {Binary(op1, Binary(op2, Num(x), Num(y)), Num(z)) :
          op1 \in ArithOps, op2 \in {"Sub", "Div"},
          x \in EdgeVals, y \in EdgeVals, z \in EdgeVals}
  \cup {Binary(op1, Num(x), Binary(op2, Num(y), Num(z))) :
          op1 \in {"Sub", "Div"}, op2 \in ArithOps,
          x \in EdgeVals, y \in EdgeVals, z \in EdgeVals}

ArithSources == {Fn("f", <<>>, "r", <<Assign("r", e)>>) : e \in ArithExprs}

\* fn f(a, b) -> r { r = a op b } for every binary operator, a comparison as
\* an operand and as a branch condition
BinarySources ==
  {Fn("f", <<"a", "b">>, "r", <<Assign("r", Binary(op, A, Identifier("b")))>>) :
     op \in ArithOps \cup CmpOps}
  \cup {Fn("f", <<"a", "b">>, "r",
           <<Assign("r", Binary("Add", Binary(op, A, Identifier("b")), Num(1)))>>) :
          op \in CmpOps}
  \cup {Fn("f", <<"a", "b">>, "r",
           <<IfElse(Binary(op, A, Identifier("b")), <<R1>>, <<Assign("r", Num(2))>>)>>) :
          op \in CmpOps}

\* conditionals and loops, alone and nested in each other's conditions and bodies
Conds0 == {Num(0), A}
Bodies0 == {<<>>, <<R1>>, <<DecA>>}
Control1 ==
  {IfElse(c, t, e) : c \in Conds0, t \in Bodies0, e \in Bodies0}
  \cup {WhileLoop(c, b) : c \in Conds0, b \in Bodies0}
Control2 ==
  {IfElse(c, <<R1>>, <<>>) : c \in Control1}
  \cup {WhileLoop(c, <<DecA>>) : c \in Control1}
  \cup {IfElse(A, <<x>>, <<y>>) : x \in Control1,
          y \in {WhileLoop(A, <<DecA>>), IfElse(A, <<>>, <<R1>>)}}
  \cup {WhileLoop(A, <<x, DecA>>) : x \in Control1}
ControlSources ==
  {Fn("f", <<"a">>, "r", <<x>>) : x \in Control1 \cup Control2}
  \cup {Fn("f", <<"a">>, "r", <<Assign("r", x)>>) : x \in Control1}

\* programs for the error classes, calls and the shapes of the header
OtherSources ==
  { RoundTrip, CondExample, LoopExample,
    Fn("f", <<"a">>, "r", <<>>),
    Fn("f", <<"a">>, "r", <<Assign("r", Num(1)), Assign("r", A), Assign("x", A)>>),
    Fn("f", <<"a">>, "r", <<Assign("x", A), Assign("r", Binary("Mul", Identifier("x"), A))>>),
    \* reads of a name that is never declared
    Fn("f", <<"a">>, "r", <<Assign("r", Identifier("b"))>>),
    Fn("f", <<"a">>, "r", <<IfElse(Identifier("y"), <<R1>>, <<>>)>>),
    Fn("f", <<"a">>, "r", <<WhileLoop(A, <<DecA, Assign("r", Binary("Add", A, Identifier("z")))>>)>>),
    \* assignments nested in another expression
    Fn("f", <<"a">>, "r", <<Assign("r", Assign("x", A))>>),
    Fn("f", <<"a">>, "r", <<Assign("r", Binary("Add", Num(1), Assign("x", Num(2))))>>),
    Fn("f", <<"a">>, "r", <<WhileLoop(Assign("x", A), <<DecA>>)>>),
    Fn("f", <<"a">>, "r", <<IfElse(Assign("x", A), <<R1>>, <<>>)>>),
    Fn("f", <<"a">>, "r", <<Assign("r", Call("g", <<Assign("x", A)>>))>>),
    Fn("f", <<"a">>, "r", <<Assign("r", Assign("a", Num(2)))>>),
    \* an assignment that reads its own target, alone and as a left operand
    Fn("f", <<"a">>, "r", <<DecA, Assign("r", A)>>),
    Fn("f", <<"a">>, "r", <<Assign("r", Binary("Add", DecA, A))>>),
    \* literals that are not an i32
    Fn("f", <<>>, "r", <<Assign("r", Literal(<<"1", "x">>))>>),
    Fn("f", <<>>, "r", <<Assign("r", Literal(<<>>))>>),
    Fn("f", <<>>, "r", <<Assign("r", Literal(TextOf(MaxI32)))>>),
    Fn("f", <<>>, "r", <<Assign("r", Literal(TextOf(MaxI32) \o <<"0">>))>>),
    Fn("f", <<>>, "r", <<Assign("r", Binary("Add", Literal(TextOf(MaxI32)), Num(1)))>>),
    \* calls
    Fn("f", <<"a">>, "r", <<Assign("r", Call("g", <<A, Num(1)>>))>>),
    Fn("f", <<"a">>, "r", <<Assign("r", Binary("Add", Call("g", <<A>>), Call("g", <<Num(1)>>)))>>),
    Fn("f", <<"a">>, "r", <<Assign("r", Binary("Add", Call("g", <<A>>), Call("g", <<A, A>>)))>>),
    Fn("f", <<"a">>, "r", <<Assign("r", Call("g", <<Call("h", <<>>), IfElse(A, <<Num(1)>>, <<Num(2)>>), Assign("r", A)>>))>>),
    Fn("f", <<"a">>, "r", <<Assign("r", Call("f", <<A, A>>))>>),
    \* the return name is a parameter name; a parameter name occurs twice
    Fn("f", <<"a">>, "a", <<>>),
    Fn("f", <<"a">>, "a", <<Assign("a", Binary("Add", A, Num(1)))>>),
    Fn("f", <<"a", "a">>, "r", <<Assign("r", A)>>),
    Fn("f", <<"a", "b">>, "b", <<>>) }

Sources ==
  {Text(u) : u \in ArithSources \cup BinarySources \cup ControlSources \cup OtherSources}
  \cup {BadText}

\* the texts compiled on a JIT that serves a sequence of compile calls
RetrySources ==
  { Text(RoundTrip),
    Text(Fn("f", <<"a", "b">>, "r", <<Assign("r", Binary("Add", A, Identifier("b")))>>)),
    Text(Fn("g", <<"a">>, "r", <<Assign("r", Call("f", <<A>>))>>)),
    Text(Fn("f", <<"a">>, "r", <<Assign("r", Call("f", <<A, A>>))>>)),
    Text(Fn("h", <<>>, "r", <<R1>>)),
    BadText }


(***************************************************************************)
(* The state.                                                              *)
(*   pc        : "idle" between compile calls, "translating" inside        *)
(*               translate, "translated" once translate has returned,      *)
(*               "panicked" once a panic has ended the call                *)
(*   parsed    : (name, params, the_return, stmts) of the call in progress *)
(*   sig       : self.ctx.func.signature, as numbers of I32 params/returns *)
(*   builder   : self.ctx.func and the FunctionBuilder over it             *)
(*   variables : trans.variables, the HashMap<String, Variable>            *)
(*   stack     : the activations of translate_expr, innermost last         *)
(*   ret       : the Value the last finished translate_expr returned       *)
(*   si        : statements of the function already translated             *)
(*   module    : self.module                                               *)
(*   outcome   : how the last compile call ended                           *)
(*   compiled  : the function the last successful compile defined          *)
(*   machine   : the execution of the last invocation of compiled          *)
(*   ncompiles : compile calls made so far                                 *)
(*   limit     : compile calls this JIT serves                             *)
(***************************************************************************)
VARIABLES pc, parsed, sig, builder, variables, stack, ret, si, module, outcome,
          compiled, machine, ncompiles, limit

vars == <<pc, parsed, sig, builder, variables, stack, ret, si, module, outcome,
          compiled, machine, ncompiles, limit>>

NoOutcome == [kind |-> "none", msg |-> ""]
NoCall ==
  [status |-> "none", ret |-> 0, args |-> <<>>, b |-> 0, i |-> 1, fuel |-> 0,
   trace |-> <<>>, vars |-> <<>>, env |-> <<>>]
NoUnit == Fn("", <<>>, "", <<>>)
EmptySig == [params |-> 0, returns |-> 0]

\* JIT::new()
Init ==
  /\ pc = "idle"
  /\ parsed = NoUnit
  /\ sig = EmptySig
  /\ builder = EmptyFunc
  /\ variables = <<>>
  /\ stack = <<>>
  /\ ret = NoValue
  /\ si = 0
  /\ module = EmptyModule
  /\ outcome = NoOutcome
  /\ compiled = EmptyFunc
  /\ machine = NoCall
  /\ ncompiles = 0
  /\ limit \in {1, MaxCompiles}

Frame(e) == [e |-> e, pc |-> "start", loc |-> <<>>, i |-> 0]
Top == stack[Len(stack)]
InExpr(kinds) == pc = "translating" /\ stack # <<>> /\ Top.e.k \in kinds

\* the top activation becomes f and calls translate_expr(child)
CallChild(f, child) ==
  stack' = Append([stack EXCEPT ![Len(stack)] = f], Frame(child))
\* the top activation becomes f and goes on
Continue(f) == stack' = [stack EXCEPT ![Len(stack)] = f]
\* the top activation returns v
ReturnValue(v) == stack' = SubSeq(stack, 1, Len(stack) - 1) /\ ret' = v

\* unwrap() on None, expect() on Err: the thread panics inside compile
Panic(msg) ==
  /\ pc' = "panicked"
  /\ outcome' = [kind |-> "panic", msg |-> msg]
  /\ UNCHANGED <<parsed, sig, builder, variables, stack, ret, si, module,
                 compiled, machine, ncompiles, limit>>

Keep == UNCHANGED <<pc, parsed, sig, variables, si, module, outcome, compiled,
                    machine, ncompiles, limit>>

\* JIT::compile up to the statement loop of translate: jit.rs 63-71, 105-155
Compile(input) ==
  /\ pc = "idle" /\ machine.status # "running"
  /\ ncompiles < limit
  /\ input \in (IF limit = 1 THEN Sources ELSE RetrySources)
  /\ ncompiles' = ncompiles + 1
  /\ machine' = NoCall
  /\ LET p == ParseFunction(input) IN
     IF ~p.ok
     THEN /\ outcome' = [kind |-> "err", msg |-> "parse"]
          /\ UNCHANGED <<pc, parsed, sig, builder, variables, stack, ret, si,
                         module, compiled, limit>>
     ELSE \E build \in {"debug", "release"} :
          LET nsig == [params |-> sig.params + Len(p.unit.params),
                       returns |-> sig.returns + 1]
              entry_ebb == NumBlocks(builder)
              B == TranslateEntry(builder, nsig.params)
              st == DeclareVariables(B, p.unit.params, p.unit.ret, p.unit.stmts,
                                     entry_ebb, build)
          IN  /\ parsed' = p.unit
              /\ sig' = nsig
              /\ builder' = st.B
              /\ variables' = st.variables
              /\ stack' = <<>>
              /\ ret' = NoValue
              /\ si' = 0
              /\ pc' = IF st.panic THEN "panicked" ELSE "translating"
              /\ outcome' = IF st.panic
                            THEN [kind |-> "panic", msg |-> "variable type"]
                            ELSE NoOutcome
              /\ UNCHANGED <<module, compiled, limit>>

\* for expr in stmts { trans.translate_expr(expr); }: jit.rs 156-158
TranslateStmt ==
  /\ pc = "translating" /\ stack = <<>> /\ si < Len(parsed.stmts)
  /\ stack' = <<Frame(parsed.stmts[si + 1])>>
  /\ si' = si + 1
  /\ UNCHANGED <<pc, parsed, sig, builder, variables, ret, module, outcome,
                 compiled, machine, ncompiles, limit>>

\* the return of translate: jit.rs 163-171
TranslateReturn ==
  /\ pc = "translating" /\ stack = <<>> /\ si = Len(parsed.stmts)
  /\ builder' = TranslateReturnValue(builder, variables[parsed.ret])
  /\ pc' = "translated"
  /\ UNCHANGED <<parsed, sig, variables, stack, ret, si, module, outcome,
                 compiled, machine, ncompiles, limit>>

\* Expr::Literal: jit.rs 188-191
ExprLiteral ==
  /\ InExpr({"Literal"})
  /\ LET imm == ParseI32(Top.e.s) IN
     IF ~imm.ok THEN Panic("malformed literal")
     ELSE /\ builder' = Iconst(builder, imm.v)
          /\ ReturnValue(LastValue(builder'))
          /\ Keep

\* ExprIdentifier with a read of an unknown name lowered to the constant 0
ExprIdentifierDefault ==
  /\ InExpr({"Identifier"})
  /\ builder' = IF Top.e.n \notin DOMAIN variables
                THEN Iconst(builder, 0)
                ELSE UseVar(builder, variables[Top.e.n])
  /\ ReturnValue(LastValue(builder'))
  /\ Keep

\* Expr::Identifier: jit.rs 269-273
ExprIdentifier ==
  /\ InExpr({"Identifier"})
  /\ IF Top.e.n \notin DOMAIN variables THEN Panic("undeclared identifier")
     ELSE /\ builder' = UseVar(builder, variables[Top.e.n])
          /\ ReturnValue(LastValue(builder'))
          /\ Keep

\* Expr::Add .. Expr::Ge: jit.rs 193-265
ExprBinary ==
  /\ InExpr(ArithOps \cup CmpOps)
  /\ \/ /\ Top.pc = "start"
        /\ CallChild([Top EXCEPT !.pc = "lhs"], Top.e.l)
        /\ UNCHANGED <<builder, ret>> /\ Keep
     \/ /\ Top.pc = "lhs"
        /\ CallChild([Top EXCEPT !.pc = "rhs", !.loc = <<ret>>], Top.e.r)
        /\ UNCHANGED <<builder, ret>> /\ Keep
     \/ /\ Top.pc = "rhs"
        /\ builder' = IF Top.e.k \in ArithOps
                      THEN EmitArith(builder, Top.e.k, Top.loc[1], ret)
                      ELSE EmitCompare(builder, Top.e.k, Top.loc[1], ret)
        /\ ReturnValue(LastValue(builder'))
        /\ Keep

\* ExprAssign with the variable rebound (to a constant 0) before the
\* right-hand side is translated
ExprAssignRebindFirst ==
  /\ InExpr({"Assign"})
  /\ \/ /\ Top.pc = "start"
        /\ IF Top.e.n \notin DOMAIN variables THEN Panic("undeclared identifier")
           ELSE /\ builder' = DefVar(Iconst(builder, 0), variables[Top.e.n],
                                     LastValue(Iconst(builder, 0)))
                /\ CallChild([Top EXCEPT !.pc = "rhs"], Top.e.e)
                /\ UNCHANGED ret /\ Keep
     \/ /\ Top.pc = "rhs"
        /\ ReturnValue(ret)
        /\ UNCHANGED builder /\ Keep

\* Expr::Assign: jit.rs 275-283
ExprAssign ==
  /\ InExpr({"Assign"})
  /\ \/ /\ Top.pc = "start"
        /\ CallChild([Top EXCEPT !.pc = "rhs"], Top.e.e)
        /\ UNCHANGED <<builder, ret>> /\ Keep
     \/ /\ Top.pc = "rhs"
        /\ IF Top.e.n \notin DOMAIN variables THEN Panic("undeclared identifier")
           ELSE /\ builder' = DefVar(builder, variables[Top.e.n], ret)
                /\ ReturnValue(ret)
                /\ Keep

\* Expr::IfElse: jit.rs 285-330.  loc is <<else_block, merge_block, the
\* then_return or else_return so far>>, i the statements of the body done.
ExprIfElse ==
  /\ InExpr({"IfElse"})
  /\ \/ /\ Top.pc = "start"
        /\ CallChild([Top EXCEPT !.pc = "cond"], Top.e.c)
        /\ UNCHANGED <<builder, ret>> /\ Keep
     \/ /\ Top.pc = "cond"
        /\ builder' = IfElseBranch(builder, ret)
        /\ Continue([Top EXCEPT !.pc = "then", !.i = 0,
                       !.loc = <<NumBlocks(builder), NumBlocks(builder) + 1,
                                 LastValue(builder')>>])
        /\ UNCHANGED ret /\ Keep
     \/ /\ Top.pc = "then"
        /\ LET then_return == IF Top.i = 0 THEN Top.loc[3] ELSE ret IN
           IF Top.i < Len(Top.e.t)
           THEN /\ CallChild([Top EXCEPT !.i = @ + 1, !.loc[3] = then_return],
                             Top.e.t[Top.i + 1])
                /\ UNCHANGED <<builder, ret>>
           ELSE /\ builder' = IfElseToElse(builder, Top.loc[1], Top.loc[2], then_return)
                /\ Continue([Top EXCEPT !.pc = "else", !.i = 0,
                               !.loc[3] = LastValue(builder')])
                /\ UNCHANGED ret
        /\ Keep
     \/ /\ Top.pc = "else"
        /\ LET else_return == IF Top.i = 0 THEN Top.loc[3] ELSE ret IN
           IF Top.i < Len(Top.e.e)
           THEN /\ CallChild([Top EXCEPT !.i = @ + 1, !.loc[3] = else_return],
                             Top.e.e[Top.i + 1])
                /\ UNCHANGED <<builder, ret>>
           ELSE /\ builder' = IfElseMerge(builder, Top.loc[2], else_return)
                /\ ReturnValue(EbbParam(builder', Top.loc[2], 0))
        /\ Keep

\* Expr::WhileLoop: jit.rs 332-355.  loc is <<header_block, exit_block>>.
ExprWhileLoop ==
  /\ InExpr({"WhileLoop"})
  /\ \/ /\ Top.pc = "start"
        /\ builder' = WhileLoopEnter(builder)
        /\ CallChild([Top EXCEPT !.pc = "cond",
                        !.loc = <<NumBlocks(builder), NumBlocks(builder) + 1>>],
                     Top.e.c)
        /\ UNCHANGED ret /\ Keep
     \/ /\ Top.pc = "cond"
        /\ builder' = WhileLoopTest(builder, ret, Top.loc[2])
        /\ Continue([Top EXCEPT !.pc = "body", !.i = 0])
        /\ UNCHANGED ret /\ Keep
     \/ /\ Top.pc = "body"
        /\ IF Top.i < Len(Top.e.b)
           THEN /\ CallChild([Top EXCEPT !.i = @ + 1], Top.e.b[Top.i + 1])
                /\ UNCHANGED <<builder, ret>>
           ELSE /\ builder' = WhileLoopExit(builder, Top.loc[1], Top.loc[2])
                /\ ReturnValue(LastValue(builder'))
        /\ Keep

\* Expr::Call, translate_call: jit.rs 267, 359-385.  loc is arg_values.
ExprCall ==
  /\ InExpr({"Call"})
  /\ \/ /\ Top.pc = "start"
        /\ LET d == DeclareFunction(module, Top.e.n, CallSignature(Top.e.a)) IN
           IF ~d.ok THEN Panic("problem declaring function")
           ELSE /\ module' = d.m
                /\ Continue([Top EXCEPT !.pc = "args", !.i = 0, !.loc = <<>>])
                /\ UNCHANGED <<pc, parsed, sig, builder, variables, ret, si,
                               outcome, compiled, machine, ncompiles, limit>>
     \/ /\ Top.pc = "args"
        /\ LET arg_values == IF Top.i = 0 THEN Top.loc ELSE Append(Top.loc, ret) IN
           IF Top.i < Len(Top.e.a)
           THEN /\ CallChild([Top EXCEPT !.i = @ + 1, !.loc = arg_values],
                             Top.e.a[Top.i + 1])
                /\ UNCHANGED <<builder, ret>>
           ELSE /\ builder' = CallInst(builder, Top.e.n, arg_values)
                /\ ReturnValue(LastValue(builder'))
        /\ Keep

\* the blocks of ctx.func the builder at hand did not create
StaleBlocks(B) ==
  {b \in 0..(NumBlocks(B) - 1) :
     \A n \in 1..Len(B.log) : ~(B.log[n].ev = "create" /\ B.log[n].b = b)}

\* The answers define_function can give.  The backend compiles what ctx.func
\* holds: a function built from an empty context is accepted; what the
\* backend makes of a function that still holds the blocks and the signature
\* of an earlier call is its own matter, so either answer is possible.
DefineAnswers(B, signature) ==
  IF StaleBlocks(B) = {} /\ signature.returns = 1 THEN {TRUE} ELSE BOOLEAN

\* JIT::compile after translate: jit.rs 79-101
FinishCompile ==
  /\ pc = "translated"
  /\ pc' = "idle"
  /\ LET d == DeclareFunction(module, parsed.name, <<sig.params, sig.returns>>) IN
     IF ~d.ok
     THEN /\ outcome' = [kind |-> "err", msg |-> "declare"]
          /\ UNCHANGED <<sig, builder, module, compiled>>
     ELSE \E accepted \in DefineAnswers(builder, sig) :
          IF ~accepted
          THEN /\ outcome' = [kind |-> "err", msg |-> "define"]
               /\ module' = d.m
               /\ UNCHANGED <<sig, builder, compiled>>
          ELSE /\ outcome' = [kind |-> "ok", msg |-> ""]
               /\ module' = [d.m EXCEPT !.defined = @ \cup {parsed.name}]
               /\ compiled' = builder
               /\ builder' = EmptyFunc
               /\ sig' = EmptySig
  /\ UNCHANGED <<parsed, variables, stack, ret, si, machine, ncompiles, limit>>

\* the caller invokes the code pointer compile returned
Invoke(args) ==
  /\ pc = "idle" /\ outcome.kind = "ok" /\ machine.status # "running"
  /\ Len(args) = Len(compiled.blocks[1].params)
  /\ machine' = Start(compiled, args)
  /\ UNCHANGED <<pc, parsed, sig, builder, variables, stack, ret, si, module,
                 outcome, compiled, ncompiles, limit>>

\* the invoked function executes its next instruction
Execute ==
  /\ machine.status = "running"
  /\ machine' = Step(compiled, machine)
  /\ UNCHANGED <<pc, parsed, sig, builder, variables, stack, ret, si, module,
                 outcome, compiled, ncompiles, limit>>

ArgTuples == {<<>>} \cup {<<v>> : v \in ArgVals} \cup {<<v, w>> : v \in ArgVals, w \in ArgVals}

Next ==
  \/ \E input \in Sources \cup RetrySources : Compile(input)
  \/ TranslateStmt
  \/ TranslateReturn
  \/ ExprLiteral
  \/ ExprIdentifier
  \/ ExprBinary
  \/ ExprAssign
  \/ ExprIfElse
  \/ ExprWhileLoop
  \/ ExprCall
  \/ FinishCompile
  \/ \E args \in ArgTuples : Invoke(args)
  \/ Execute

Spec == Init /\ [][Next]_vars

(***************************************************************************)
(* Properties.                                                             *)
(***************************************************************************)
\* the direct subexpressions of a node, in source order
Children(e) ==
  CASE e.k \in {"Literal", "Identifier"} -> <<>>
    [] e.k = "Assign" -> <<e.e>>
    [] e.k \in ArithOps \cup CmpOps -> <<e.l, e.r>>
    [] e.k = "IfElse" -> <<e.c>> \o e.t \o e.e
    [] e.k = "WhileLoop" -> <<e.c>> \o e.b
    [] e.k = "Call" -> e.a

\* every node of the tree e
RECURSIVE Nodes(_)
Nodes(e) == {e} \cup UNION {Nodes(Children(e)[n]) : n \in 1..Len(Children(e))}

AllNodes(stmts) == UNION {Nodes(stmts[n]) : n \in 1..Len(stmts)}
AssignTargets(stmts) == {m.n : m \in {d \in AllNodes(stmts) : d.k = "Assign"}}
IdentifiersRead(stmts) == {m.n : m \in {d \in AllNodes(stmts) : d.k = "Identifier"}}
SeqRange(q) == {q[n] : n \in 1..Len(q)}

\* the branch events of a builder log that target block b
IsBranchTo(ev, b) == ev.ev = "ins" /\ ev.op \in {"jump", "brz"} /\ ev.t = b

\* C1: whenever a block is sealed, every jump or branch that targets it over
\* the whole translation is already emitted; while an IfElse is in its then
\* or else body its merge block is unsealed, and while a WhileLoop is in its
\* condition or body its header block is unsealed.
C1_SealedAfterBranches ==
  /\ \A i \in 1..Len(builder.log) : \A j \in 1..Len(builder.log) :
        (builder.log[i].ev = "seal" /\ IsBranchTo(builder.log[j], builder.log[i].b))
           => j < i
  /\ \A n \in 1..Len(stack) :
        /\ (stack[n].e.k = "IfElse" /\ stack[n].pc \in {"then", "else"})
              => stack[n].loc[2] \notin builder.sealed
        /\ (stack[n].e.k = "WhileLoop" /\ stack[n].pc \in {"cond", "body"})
              => stack[n].loc[1] \notin builder.sealed

\* a loop whose condition is a conditional has been translated to the end:
\* the entry block, two blocks of the loop and two of the conditional are sealed
C1_Witness ==
  /\ pc = "translated"
  /\ Len(parsed.stmts) = 1
  /\ parsed.stmts[1].k = "WhileLoop"
  /\ parsed.stmts[1].c.k = "IfElse"
  /\ Len(parsed.stmts[1].b) > 0
  /\ Cardinality(builder.sealed) = 5
  /\ \E j \in 1..Len(builder.log) : IsBranchTo(builder.log[j], 1)

\* C2: once the variable table is built, it has an entry for the target of
\* every Assign node of the function, wherever the node is nested, and no
\* Assign node fails to find its variable.
C2_EveryAssignTargetDeclared ==
  /\ pc = "translating" => AssignTargets(parsed.stmts) \subseteq DOMAIN variables
  /\ ~(pc = "panicked" /\ stack # <<>> /\ Top.e.k = "Assign")

\* the names a function reads that are no parameter, not the return name
\* and no target of an Assign
UndeclaredReads(unit) ==
  IdentifiersRead(unit.stmts)
    \ (SeqRange(unit.params) \cup {unit.ret} \cup AssignTargets(unit.stmts))

AtUndeclaredRead ==
  /\ InExpr({"Identifier"})
  /\ Top.e.n \in UndeclaredReads(parsed)

\* C3: a function that reads such a name is never translated to the end,
\* and the translator, arrived at the read, stops with the undeclared
\* identifier error: no instruction is emitted and no Value is returned.
C3_UndeclaredReadIsFatal ==
  /\ [](UndeclaredReads(parsed) # {} => pc \in {"translating", "panicked"})
  /\ [][AtUndeclaredRead =>
          /\ pc' = "panicked"
          /\ outcome' = [kind |-> "panic", msg |-> "undeclared identifier"]
          /\ builder' = builder
          /\ ret' = ret]_vars

\* the translator has stopped at a read of an undeclared name inside a loop body
C3_Witness ==
  /\ pc = "panicked"
  /\ outcome.msg = "undeclared identifier"
  /\ stack # <<>>
  /\ Top.e.k = "Identifier"
  /\ Top.e.n \in UndeclaredReads(parsed)
  /\ \E n \in 1..Len(stack) : stack[n].e.k = "WhileLoop"

\* C4: a compile call ends by returning a function pointer or an error
\* value, and in no other way.
C4_CompileReturnsResult ==
  /\ pc # "panicked"
  /\ (pc = "idle" /\ ncompiles > 0) => outcome.kind \in {"ok", "err"}

\* C5: every compile call translates from an empty function context: the
\* signature has one parameter per parameter name and one return, and the
\* function holds only blocks this call created.
C5_FreshContextPerCompile ==
  pc \in {"translating", "translated"} =>
    /\ sig.params = Len(parsed.params)
    /\ sig.returns = 1
    /\ StaleBlocks(builder) = {}

\* the instructions of function F as <<block, position>>
Positions(F) ==
  UNION {{<<b, n>> : n \in 1..Len(F.blocks[b + 1].insts)} : b \in 0..(NumBlocks(F) - 1)}
InstAt(F, p) == F.blocks[p[1] + 1].insts[p[2]]

\* how often the machine has executed the instruction at position p
Executed(p) == Cardinality({n \in 1..Len(machine.trace) : machine.trace[n] = p})
\* whether the machine has executed an instruction of block b
Entered(b) == \E n \in 1..Len(machine.trace) : machine.trace[n][1] = b
Finished == machine.status \notin {"none", "running"}

\* fn f(a) -> r { r = if c { t } else { e } } with c, t, e as in Control1
CondValueUnits ==
  {Fn("f", <<"a">>, "r", <<Assign("r", IfElse(c, t, e))>>) :
     c \in Conds0, t \in Bodies0, e \in Bodies0}

\* the value the language gives the body of a branch when a is the argument
BodyValue(body, a) ==
  IF body = <<>> THEN 0 ELSE IF body[1] = R1 THEN 1 ELSE Sub32(a, 1)

\* the value of the conditional of a unit of CondValueUnits
CondValue(unit, a) ==
  LET x == unit.stmts[1].e
      c == IF x.c = A THEN a ELSE 0
  IN  IF c # 0 THEN BodyValue(x.t, a) ELSE BodyValue(x.e, a)

\* C6: the Value of an IfElse is the one entry parameter of its merge block,
\* the merge block is entered by exactly two jumps with one argument each,
\* a function returning the conditional returns the value of the last
\* statement of the branch taken or 0 for an empty one, fn f(a) -> r { if a
\* { r = 1 } else { r = 2 } } returns 1 for a # 0 and 2 for a = 0, and the
\* else block is executed exactly when the condition is 0.
C6_ConditionalValue ==
  /\ (pc = "translated" /\ StaleBlocks(builder) = {}) =>
        \A b \in 1..(NumBlocks(builder) - 1) :
           /\ Len(builder.blocks[b + 1].params) <= 1
           /\ Len(builder.blocks[b + 1].params) = 1 =>
                LET jumps == {p \in Positions(builder) :
                                InstAt(builder, p).op = "jump" /\ InstAt(builder, p).t = b}
                IN  /\ Cardinality(jumps) = 2
                    /\ \A p \in jumps : Len(InstAt(builder, p).a) = 1
  /\ (pc = "translated" /\ parsed \in CondValueUnits) =>
        /\ InstAt(builder, <<2, 1>>).op = "def_var"
        /\ InstAt(builder, <<2, 1>>).a = builder.blocks[3].params
  /\ (parsed \in CondValueUnits /\ Finished) =>
        /\ machine.status = "returned"
        /\ machine.ret = CondValue(parsed, machine.args[1])
        /\ Entered(1) <=> (IF parsed.stmts[1].e.c = A THEN machine.args[1] ELSE 0) = 0
  /\ (parsed = CondExample /\ Finished) =>
        /\ machine.status = "returned"
        /\ machine.ret = IF machine.args[1] # 0 THEN 1 ELSE 2
        /\ Entered(1) <=> machine.args[1] = 0

\* the conditional example has returned 2 for a = 0 through its else block
C6_Witness ==
  /\ parsed = CondExample
  /\ machine.status = "returned"
  /\ machine.args = <<0>>
  /\ machine.ret = 2
  /\ Entered(1)

\* C7: fn f(a) -> r { r = 0; while a { r = r + 1; a = a - 1 } } invoked
\* with a = n >= 0 stops and returns n: the condition in the header block is
\* evaluated n + 1 times, each instruction of the body n times, the exit
\* block is entered once, at the end; for a = 0 no body instruction runs.
C7_LoopCountsDown ==
  (parsed = LoopExample /\ machine.status # "none" /\ machine.args[1] >= 0) =>
    /\ machine.status \in {"running", "returned"}
    /\ \A p \in Positions(compiled) :
         (p[1] = 1 /\ p[2] > 2) => Executed(p) <= machine.args[1]
    /\ Executed(<<1, 1>>) <= machine.args[1] + 1
    /\ machine.status = "returned" =>
         /\ machine.ret = machine.args[1]
         /\ Executed(<<1, 1>>) = machine.args[1] + 1
         /\ Executed(<<1, 2>>) = machine.args[1] + 1
         /\ \A p \in Positions(compiled) :
              (p[1] = 1 /\ p[2] > 2) => Executed(p) = machine.args[1]
         /\ \A p \in Positions(compiled) : p[1] = 2 => Executed(p) = 1

\* the loop example has returned MaxArg after MaxArg rounds
C7_Witness ==
  /\ parsed = LoopExample
  /\ machine.status = "returned"
  /\ machine.args = <<MaxArg>>
  /\ machine.ret = MaxArg
  /\ Executed(<<1, 3>>) = MaxArg

\* the return instructions a builder has emitted
ReturnEvents(B) == {n \in 1..Len(B.log) : B.log[n].ev = "ins" /\ B.log[n].op = "return"}

\* C8: exactly one return is emitted, after everything else, and the
\* function returns the last value assigned to the return name, or 0 when
\* no statement assigned it; fn f(a) -> r { r = a } returns its argument.
C8_ReturnsReturnVariable ==
  /\ pc = "translated" => ReturnEvents(builder) = {Len(builder.log)}
  /\ pc = "translating" => ReturnEvents(builder) = {}
  /\ (limit = 1 /\ parsed.stmts = <<>> /\ Finished) =>
        machine.status = "returned" /\ machine.ret = 0
  /\ (limit = 1 /\ parsed = RoundTrip /\ Finished) =>
        machine.status = "returned" /\ machine.ret = machine.args[1]

\* the value of an arithmetic tree, with Div signed or unsigned; ok is
\* FALSE when a divisor is 0
RECURSIVE EvalTree(_, _)
EvalTree(e, signed) ==
  IF e.k = "Literal" THEN ParseI32(e.s)
  ELSE LET l == EvalTree(e.l, signed)
           r == EvalTree(e.r, signed)
       IN  IF ~l.ok \/ ~r.ok \/ (e.k = "Div" /\ r.v = 0) THEN [ok |-> FALSE, v |-> 0]
           ELSE [ok |-> TRUE,
                 v |-> CASE e.k = "Add" -> Add32(l.v, r.v)
                         [] e.k = "Sub" -> Sub32(l.v, r.v)
                         [] e.k = "Mul" -> Mul32(l.v, r.v)
                         [] e.k = "Div" -> IF signed THEN SDiv32(l.v, r.v)
                                           ELSE UDiv32(l.v, r.v)]

\* no Div node of e has a negative operand
DivOperandsNonNegative(e) ==
  \A d \in {m \in Nodes(e) : m.k = "Div"} :
     /\ EvalTree(d.l, FALSE).ok => EvalTree(d.l, FALSE).v >= 0
     /\ EvalTree(d.r, FALSE).ok => EvalTree(d.r, FALSE).v >= 0

\* C9 as stated: the function computes the tree with the standard (signed)
\* meaning of every operator.
C9_StandardArithmetic ==
  (parsed \in ArithSources /\ Finished /\ EvalTree(parsed.stmts[1].e, TRUE).ok) =>
    /\ machine.status = "returned"
    /\ machine.ret = EvalTree(parsed.stmts[1].e, TRUE).v

\* C9 amended: the function computes the tree with wrapping Add, Sub, Mul
\* and with Div as unsigned 32-bit division, trapping on a zero divisor;
\* this is the standard value when no Div has a negative operand.
C9_UnsignedDivArithmetic ==
  (parsed \in ArithSources /\ Finished) =>
    LET e == parsed.stmts[1].e
        u == EvalTree(e, FALSE)
    IN  /\ u.ok => (machine.status = "returned" /\ machine.ret = u.v)
        /\ ~u.ok => machine.status = "trap"
        /\ (u.ok /\ DivOperandsNonNegative(e)) =>
              (EvalTree(e, TRUE).ok /\ machine.ret = EvalTree(e, TRUE).v)

\* a division of a negative literal has returned its unsigned quotient
C9_Witness ==
  /\ parsed = Fn("f", <<>>, "r", <<Assign("r", Binary("Div", Num(0 - MaxLit), Num(2)))>>)
  /\ machine.status = "returned"
  /\ machine.ret = UDiv32(0 - MaxLit, 2)
  /\ machine.ret # SDiv32(0 - MaxLit, 2)

\* whether the comparison k holds of a and b
CmpHolds(k, a, b) ==
  CASE k = "Eq" -> a = b
    [] k = "Ne" -> a # b
    [] k = "Lt" -> a < b
    [] k = "Le" -> a <= b
    [] k = "Gt" -> a > b
    [] k = "Ge" -> a >= b

\* C10: the Value of a comparison is 1 when it holds and 0 when it does
\* not: returned as it is, used as an operand of Add, and used as the
\* condition of a conditional; no bint result is anything but 0 or 1.
C10_ComparisonIsZeroOrOne ==
  /\ \A p \in Positions(compiled) :
        (InstAt(compiled, p).op = "bint" /\ InstAt(compiled, p).res \in DOMAIN machine.env)
           => machine.env[InstAt(compiled, p).res] \in {0, 1}
  /\ (parsed \in BinarySources /\ Finished) =>
        LET e == parsed.stmts[1]
            a == machine.args[1]
            b == machine.args[2]
        IN  /\ (e.k = "Assign" /\ e.e.k \in CmpOps) =>
                 /\ machine.status = "returned"
                 /\ machine.ret = IF CmpHolds(e.e.k, a, b) THEN 1 ELSE 0
            /\ (e.k = "Assign" /\ e.e.k = "Add" /\ e.e.l.k \in CmpOps) =>
                 /\ machine.status = "returned"
                 /\ machine.ret = IF CmpHolds(e.e.l.k, a, b) THEN 2 ELSE 1
            /\ e.k = "IfElse" =>
                 /\ machine.status = "returned"
                 /\ machine.ret = IF CmpHolds(e.c.k, a, b) THEN 1 ELSE 2

\* a <= b has returned 1 for equal arguments, and a comparison plus 1 has
\* returned 2
C10_Witness ==
  /\ parsed \in BinarySources
  /\ machine.status = "returned"
  /\ machine.args[1] = machine.args[2]
  /\ parsed.stmts[1].k = "Assign"
  /\ parsed.stmts[1].e.k = "Le"
  /\ machine.ret = 1

\* the call instructions a function holds, as positions
CallPositions(F) == {p \in Positions(F) : InstAt(F, p).op = "call"}

\* the top activation is a Call about to declare a callee that the module
\* already holds with as many parameters as the Call has arguments
AtRepeatedDeclaration ==
  /\ InExpr({"Call"})
  /\ Top.pc = "start"
  /\ Top.e.n \in DOMAIN module.decls
  /\ module.decls[Top.e.n] = <<Len(Top.e.a), 1>>

\* C11: a Call whose callee the module already holds with the same number
\* of arguments (from an earlier Call of the function or from an earlier
\* compile) is declared again without a conflict and leaves the module as it
\* is, so all such Calls refer to the one declaration of the name; a
\* declaration conflict only ever happens for another number of arguments;
\* every call instruction has as many operands as its declaration has
\* parameters.
C11_RepeatedDeclarationIsIdempotent ==
  /\ [][AtRepeatedDeclaration => (pc' = "translating" /\ module' = module)]_vars
  /\ []((pc = "panicked" /\ outcome.msg = "problem declaring function") =>
          /\ Top.e.n \in DOMAIN module.decls
          /\ module.decls[Top.e.n] # <<Len(Top.e.a), 1>>)
  /\ [](pc \in {"translating", "translated"} =>
          \A p \in CallPositions(builder) :
             /\ InstAt(builder, p).f \in DOMAIN module.decls
             /\ module.decls[InstAt(builder, p).f] = <<Len(InstAt(builder, p).a), 1>>)

\* a function has been translated that calls one callee twice with one
\* argument each
C11_Witness ==
  /\ pc = "translated"
  /\ \E p \in CallPositions(builder), q \in CallPositions(builder) :
        /\ p # q
        /\ InstAt(builder, p).f = InstAt(builder, q).f
        /\ Len(InstAt(builder, p).a) = 1
        /\ Len(InstAt(builder, q).a) = 1

\* the Assign targets the statement walk of the table builder meets, in
\* order: top-level statements and the bodies of conditionals and loops
RECURSIVE WalkNames(_)
WalkNames(stmts) ==
  IF stmts = <<>> THEN <<>>
  ELSE LET e == Head(stmts)
           here == CASE e.k = "Assign" -> <<e.n>>
                     [] e.k = "IfElse" -> WalkNames(e.t) \o WalkNames(e.e)
                     [] e.k = "WhileLoop" -> WalkNames(e.b)
                     [] OTHER -> <<>>
       IN  here \o WalkNames(Tail(stmts))

\* a sequence without its repeated elements, first occurrences kept
RECURSIVE FirstOccurrences(_)
FirstOccurrences(q) ==
  IF q = <<>> THEN <<>>
  ELSE LET d == FirstOccurrences(SubSeq(q, 1, Len(q) - 1))
       IN  IF q[Len(q)] \in SeqRange(d) THEN d ELSE Append(d, q[Len(q)])

\* the names of a function in the order the table builder meets them
NamesMet(unit) == unit.params \o <<unit.ret>> \o WalkNames(unit.stmts)

\* the table builder's state once it has finished
FinishedTable ==
  [B |-> builder, variables |-> variables, index |-> Cardinality(DOMAIN variables),
   var |-> 0, panic |-> FALSE]

\* C12: the table maps the k-th distinct name of (parameters, return name,
\* Assign targets in walk order) to Variable k - 1, so names and Variables
\* correspond one to one and the indices are dense; declaring a known name
\* again changes neither the table nor the next index; translation of the
\* statements never changes the table.
C12_TableIsDenseAndStable ==
  /\ [](pc \in {"translating", "translated"} =>
          LET order == FirstOccurrences(NamesMet(parsed))
          IN  /\ DOMAIN variables = SeqRange(order)
              /\ \A k \in 1..Len(order) : variables[order[k]] = k - 1
              /\ \A n \in DOMAIN variables :
                    /\ DeclareVariable(FinishedTable, n).variables = variables
                    /\ DeclareVariable(FinishedTable, n).index = FinishedTable.index
                    /\ DeclareVariable(FinishedTable, n).B = builder)
  /\ [][pc = "translating" => variables' = variables]_vars

\* a function with three distinct names, one of them met again by the walk,
\* has been translated
C12_Witness ==
  /\ pc = "translated"
  /\ Cardinality(DOMAIN variables) = 3
  /\ Len(NamesMet(parsed)) > 3
  /\ \E n \in DOMAIN variables : variables[n] = 2 /\ n \notin SeqRange(parsed.params)

\* the entry block of the function being built
EntryBlock == builder.log[1].b

\* C13: the table builder binds the i-th entry-block parameter to the
\* Variable of the i-th parameter name and the zero constant to the Variable
\* of the return name, each a declared Variable; no definition is bound to a
\* Variable that no name maps to, and the builder never stops on one.
C13_DefinitionsBoundToTableVariables ==
  /\ ~(pc = "panicked" /\ outcome.msg = "variable type")
  /\ pc \in {"translating", "translated"} =>
       LET insts == builder.blocks[EntryBlock + 1].insts
           n == Len(parsed.params)
       IN  /\ \A i \in 1..n :
                /\ insts[i].op = "def_var"
                /\ insts[i].a = <<EbbParam(builder, EntryBlock, i - 1)>>
                /\ insts[i].i = variables[parsed.params[i]]
                /\ insts[i].i \in builder.dvars
           /\ insts[n + 1].op = "iconst"
           /\ insts[n + 1].i = 0
           /\ insts[n + 2].op = "def_var"
           /\ insts[n + 2].a = <<insts[n + 1].res>>
           /\ insts[n + 2].i = variables[parsed.ret]
           /\ insts[n + 2].i \in builder.dvars
           /\ \A p \in Positions(builder) :
                (p[1] >= EntryBlock /\ InstAt(builder, p).op = "def_var") =>
                   \E name \in DOMAIN variables : variables[name] = InstAt(builder, p).i

PureKinds == {"Literal", "Identifier"} \cup ArithOps \cup CmpOps

\* whether F2 is F1 with instructions appended to block b and nothing else:
\* no block created or sealed, the current block and every other block as
\* they were, none of the appended instructions a jump, a branch, a return
\* or a definition of a variable
OnlyAppendsTo(F1, F2, b) ==
  /\ F2.cur = F1.cur
  /\ NumBlocks(F2) = NumBlocks(F1)
  /\ F2.sealed = F1.sealed
  /\ F2.dvars = F1.dvars
  /\ \A c \in 0..(NumBlocks(F1) - 1) : c # b => F2.blocks[c + 1] = F1.blocks[c + 1]
  /\ F2.blocks[b + 1].params = F1.blocks[b + 1].params
  /\ Len(F2.blocks[b + 1].insts) >= Len(F1.blocks[b + 1].insts)
  /\ SubSeq(F2.blocks[b + 1].insts, 1, Len(F1.blocks[b + 1].insts)) = F1.blocks[b + 1].insts
  /\ \A n \in (Len(F1.blocks[b + 1].insts) + 1)..Len(F2.blocks[b + 1].insts) :
        F2.blocks[b + 1].insts[n].op \notin {"jump", "brz", "return", "def_var", "call"}
  /\ Len(F2.log) >= Len(F1.log)
  /\ SubSeq(F2.log, 1, Len(F1.log)) = F1.log
  /\ \A n \in (Len(F1.log) + 1)..Len(F2.log) : F2.log[n].ev = "ins" /\ F2.log[n].b = b

\* C14: every step translate_expr takes at a literal, an identifier read,
\* an arithmetic or a comparison node only appends instructions to the
\* current block: it creates, seals and switches to no block, emits no jump
\* or branch and rebinds no variable.  Every step of the translation of a
\* tree made of such nodes only is such a step.
C14_PureExpressionsOnlyAppend ==
  [][InExpr(PureKinds) => (OnlyAppendsTo(builder, builder', builder.cur) /\ variables' = variables)]_vars

\* whether every node of e is a literal, a read, an arithmetic operator or
\* a comparison
PureTree(e) == \A m \in Nodes(e) : m.k \in PureKinds

\* the right-hand side a comparison of two reads plus a literal has just been
\* translated into the entry block, the only block so far
C14_Witness ==
  /\ pc = "translating"
  /\ Len(stack) = 1
  /\ Top.e.k = "Assign" /\ Top.pc = "rhs"
  /\ PureTree(Top.e.e)
  /\ Top.e.e.k = "Add" /\ Top.e.e.l.k \in CmpOps
  /\ NumBlocks(builder) = 1
  /\ InstAt(builder, <<0, Len(builder.blocks[1].insts)>>).op = "iadd"
  /\ ret = LastValue(builder)

\* the instructions of the current block of F
CurrentInsts(F) == F.blocks[F.cur + 1].insts

\* fn f(a) -> r { a = a - 1; r = a } and fn f(a) -> r { r = (a = a - 1) + a }
ReadThenRebind == Fn("f", <<"a">>, "r", <<DecA, Assign("r", A)>>)
RebindAsLeftOperand == Fn("f", <<"a">>, "r", <<Assign("r", Binary("Add", DecA, A))>>)

\* C15: an Assign first has its right-hand side translated, touching
\* neither the builder nor the table itself; once the Value of the
\* right-hand side is there it appends exactly one definition, of the
\* Variable of its name to that Value, and returns that Value.  A binary
\* operator has its left operand translated, then its right operand, and
\* emits its instruction on the two Values in that order.  So a = a - 1
\* reads the old a, and in (a = a - 1) + a the right operand reads the new a.
C15_AssignBindsAfterEvaluation ==
  /\ [][(InExpr({"Assign"}) /\ Top.pc = "start") =>
          /\ builder' = builder /\ variables' = variables
          /\ stack'[Len(stack')] = Frame(Top.e.e)]_vars
  /\ [][(InExpr({"Assign"}) /\ Top.pc = "rhs" /\ Top.e.n \in DOMAIN variables) =>
          /\ ret < builder.nvals
          /\ ret' = ret
          /\ builder'.cur = builder.cur /\ builder'.nvals = builder.nvals
          /\ CurrentInsts(builder') =
               Append(CurrentInsts(builder),
                      Inst("def_var", <<ret>>, NoBlock, variables[Top.e.n], NoValue, ""))]_vars
  /\ [][(InExpr(ArithOps \cup CmpOps) /\ Top.pc = "start") =>
          /\ builder' = builder
          /\ stack'[Len(stack')] = Frame(Top.e.l)]_vars
  /\ [][(InExpr(ArithOps \cup CmpOps) /\ Top.pc = "lhs") =>
          /\ ret < builder.nvals
          /\ builder' = builder
          /\ stack'[Len(stack')] = Frame(Top.e.r)]_vars
  /\ [][(InExpr(ArithOps \cup CmpOps) /\ Top.pc = "rhs") =>
          \E n \in 1..Len(CurrentInsts(builder')) :
             /\ n > Len(CurrentInsts(builder))
             /\ CurrentInsts(builder')[n].op \in {"iadd", "isub", "imul", "udiv", "icmp"}
             /\ CurrentInsts(builder')[n].a[2] = ret
             /\ CurrentInsts(builder')[n].a[1] = Top.loc[1]]_vars
  /\ []((parsed = ReadThenRebind /\ Finished) =>
          /\ machine.status = "returned"
          /\ machine.ret = Sub32(machine.args[1], 1))
  /\ []((parsed = RebindAsLeftOperand /\ Finished) =>
          /\ machine.status = "returned"
          /\ machine.ret = Add32(Sub32(machine.args[1], 1), Sub32(machine.args[1], 1)))

\* r = (a = a - 1) + a has returned 2 * (MaxArg - 1)
C15_Witness ==
  /\ parsed = RebindAsLeftOperand
  /\ machine.status = "returned"
  /\ machine.args = <<MaxArg>>
  /\ machine.ret = 2 * (MaxArg - 1)

\* fn f(a) -> r { r = g(h(), if a { 1 } else { 2 }, r = a) }
NestedCallArguments ==
  Fn("f", <<"a">>, "r",
     <<Assign("r", Call("g", <<Call("h", <<>>), IfElse(A, <<Num(1)>>, <<Num(2)>>),
                               Assign("r", A)>>))>>)

\* C16: a Call with k arguments declares its callee with k parameters and
\* one return, then has its arguments translated one after the other from
\* the left, keeping the Value each one returned, and only then appends the
\* call instruction, whose operands are those k Values in order and whose
\* result is the Value of the Call; so it is for arguments that are a Call,
\* an IfElse and an Assign.
C16_CallLowering ==
  /\ [][(InExpr({"Call"}) /\ Top.pc = "start" /\ pc' = "translating") =>
          /\ module'.decls[Top.e.n] = <<Len(Top.e.a), 1>>
          /\ builder' = builder]_vars
  /\ [][(InExpr({"Call"}) /\ Top.pc = "args" /\ Top.i < Len(Top.e.a)) =>
          /\ builder' = builder
          /\ Len(stack') = Len(stack) + 1
          /\ stack'[Len(stack')] = Frame(Top.e.a[Top.i + 1])
          /\ Len(stack'[Len(stack)].loc) = Top.i
          /\ Top.i > 0 => /\ stack'[Len(stack)].loc[Top.i] = ret
                          /\ SubSeq(stack'[Len(stack)].loc, 1, Top.i - 1) = Top.loc]_vars
  /\ [][(InExpr({"Call"}) /\ Top.pc = "args" /\ Top.i = Len(Top.e.a)) =>
          /\ CurrentInsts(builder') =
               Append(CurrentInsts(builder),
                      Inst("call", IF Top.i = 0 THEN <<>> ELSE Append(Top.loc, ret),
                           NoBlock, 0, builder.nvals, Top.e.n))
          /\ Len(CurrentInsts(builder')[Len(CurrentInsts(builder'))].a) = Len(Top.e.a)
          /\ ret' = builder.nvals]_vars
  /\ []((pc = "translated" /\ parsed = NestedCallArguments) =>
          \E g \in CallPositions(builder), h \in CallPositions(builder) :
             /\ InstAt(builder, g).f = "g" /\ InstAt(builder, h).f = "h"
             /\ InstAt(builder, h).a = <<>>
             /\ Len(InstAt(builder, g).a) = 3
             /\ InstAt(builder, g).a[1] = InstAt(builder, h).res
             /\ InstAt(builder, g).a[2] = EbbParam(builder, g[1], 0)
             /\ InstAt(builder, <<g[1], g[2] - 1>>).op = "def_var"
             /\ InstAt(builder, <<g[1], g[2] - 1>>).a = <<InstAt(builder, g).a[3]>>
             /\ InstAt(builder, <<g[1], g[2] + 1>>).op = "def_var"
             /\ InstAt(builder, <<g[1], g[2] + 1>>).a = <<InstAt(builder, g).res>>
             /\ module.decls["g"] = <<3, 1>> /\ module.decls["h"] = <<0, 1>>)

\* the function with a Call, an IfElse and an Assign as arguments of a Call
\* has been translated
C16_Witness ==
  /\ pc = "translated"
  /\ parsed = NestedCallArguments
  /\ \E g \in CallPositions(builder) :
        /\ InstAt(builder, g).f = "g"
        /\ Len(InstAt(builder, g).a) = 3
        /\ g[1] = 2

\* whether, in every block of F, the instructions with an opcode of ops are
\* last in their block
OnlyLast(F, ops) ==
  \A p \in Positions(F) :
     InstAt(F, p).op \in ops => p[2] = Len(F.blocks[p[1] + 1].insts)

\* whether every block of F ends with an instruction with an opcode of ops
EndsWith(F, ops) ==
  \A b \in 0..(NumBlocks(F) - 1) :
     /\ F.blocks[b + 1].insts # <<>>
     /\ F.blocks[b + 1].insts[Len(F.blocks[b + 1].insts)].op \in ops

\* C17 as stated: jump, conditional branch and return are terminators; each
\* is the last instruction of its block, and a finished function has
\* exactly one of them in every block, at its end.
C17_OneTerminatorLast ==
  /\ pc \in {"translating", "translated"} => OnlyLast(builder, {"jump", "brz", "return"})
  /\ pc = "translated" => EndsWith(builder, {"jump", "brz", "return"})

\* C17 amended: a jump or a return is the last instruction of its block
\* at every moment of the translation, so nothing is ever appended after
\* one, and a finished function has exactly one of them in every block, at
\* its end; a conditional branch is never last: the instructions of the
\* fall-through path follow it in the same block.
C17_OneJumpOrReturnLast ==
  /\ pc \in {"translating", "translated"} => OnlyLast(builder, {"jump", "return"})
  /\ pc = "translated" =>
       /\ EndsWith(builder, {"jump", "return"})
       /\ \A p \in Positions(builder) :
            InstAt(builder, p).op = "brz" => p[2] < Len(builder.blocks[p[1] + 1].insts)

\* a function with a conditional inside a loop has been translated: five
\* blocks, two conditional branches
C17_Witness ==
  /\ pc = "translated"
  /\ NumBlocks(builder) = 5
  /\ Cardinality({p \in Positions(builder) : InstAt(builder, p).op = "brz"}) = 2
  /\ Cardinality({p \in Positions(builder) : InstAt(builder, p).op \in {"jump", "return"}}) = 5

\* the number of IfElse and WhileLoop nodes of a tree, and of a sequence of
\* trees
RECURSIVE ControlNodes(_)
RECURSIVE ControlNodesIn(_)
ControlNodes(e) ==
  (IF e.k \in {"IfElse", "WhileLoop"} THEN 1 ELSE 0) + ControlNodesIn(Children(e))
ControlNodesIn(q) ==
  IF q = <<>> THEN 0 ELSE ControlNodes(Head(q)) + ControlNodesIn(Tail(q))

\* the blocks the builder at hand has created, and how often it has
\* switched to and sealed block b
CreatedBlocks(B) == {B.log[n].b : n \in {m \in 1..Len(B.log) : B.log[m].ev = "create"}}
TimesOf(B, ev, b) == Cardinality({n \in 1..Len(B.log) : B.log[n].ev = ev /\ B.log[n].b = b})

\* C18: when translate has finished the builder, it has created
\* 1 + 2 * (IfElse nodes + WhileLoop nodes) blocks, each of them once, and
\* has switched to each of them exactly once and sealed each of them
\* exactly once; on a JIT whose context was empty at the start these are all
\* the blocks of the function.
C18_EveryBlockVisitedAndSealedOnce ==
  pc = "translated" =>
    /\ Cardinality(CreatedBlocks(builder)) = 1 + 2 * ControlNodesIn(parsed.stmts)
    /\ \A b \in CreatedBlocks(builder) :
         /\ TimesOf(builder, "create", b) = 1
         /\ TimesOf(builder, "switch", b) = 1
         /\ TimesOf(builder, "seal", b) = 1
         /\ b \in builder.sealed
    /\ builder.sealed = CreatedBlocks(builder)
    /\ StaleBlocks(builder) = {} => NumBlocks(builder) = 1 + 2 * ControlNodesIn(parsed.stmts)

\* a function with two conditionals nested in a conditional has been
\* translated: seven blocks
C18_Witness ==
  /\ pc = "translated"
  /\ ControlNodesIn(parsed.stmts) = 3
  /\ Cardinality(CreatedBlocks(builder)) = 7
  /\ \A b \in 0..6 : TimesOf(builder, "seal", b) = 1 /\ TimesOf(builder, "switch", b) = 1
====
